---------------------------- MODULE Spec2Model ----------------------------
(***************************************************************************)
(* A model of the publication tools of fmrico.github.io:                   *)
(*   tools/repair_publications.py  (the repair run: parse, filter,         *)
(*                                  reconcile, render)                     *)
(*   tools/update_publications.py  (the profile fetch, its deduplication,  *)
(*                                  the registry matcher and the card      *)
(*                                  blocks it writes)                      *)
(*                                                                         *)
(* Text is modelled character by character on TLA+ strings.  TLA+ string   *)
(* literals are ASCII, so the few non-ASCII characters the code treats     *)
(* specially are written with ASCII stand-ins that occur nowhere else in   *)
(* the inputs:                                                             *)
(*      {   U+201C  left double quotation mark                             *)
(*      }   U+201D  right double quotation mark                            *)
(*      ^   U+2019  right single quotation mark                            *)
(*      ~   U+2013  en dash                                                *)
(*      #   U+00C3  (first half of a mojibake pair)                        *)
(*      $   U+00AD  (second half of the mojibake of i-acute)               *)
(*      |   U+00ED  i-acute                                                *)
(*      @   U+00E2  (first character of the mojibake of a curly quote)     *)
(*      %   U+0080  (its second character)                                 *)
(*      +   U+009C  (third character, for the left double quotation mark)  *)
(*      *   U+009D  (third character, for the right double quotation mark) *)
(* None is the Python None of an Optional field.                           *)
(***************************************************************************)
EXTENDS Integers, Sequences, FiniteSets, TLC

VARIABLES
    \* ---- the registry matcher (both tools)
    title,        \* the query title
    year,         \* the query year ("" or None when there is none)
    resp,         \* the registry's answer: [ok, items]
    tool,         \* which tool's matcher ran: "repair" | "update" | "none"
    best,         \* the value the matcher returned (an item or NoItem)
    best_score,   \* score(best) as the matcher computed it
    mpc,          \* "idle" | "ready" | "returned"
    \* ---- fetch_scholar_publications
    all_pubs,     \* the records of the pages fetched so far
    seen,         \* the keys already seen by the deduplication loop
    deduped,      \* the survivors so far
    di,           \* the loop index into all_pubs
    dpc,          \* "idle" | "fetch" | "dedup" | "done" | "raised"
    \* ---- rebuild_card on one card
    card,         \* the parsed card
    out_card,     \* the rendered card (<<>> before rebuild_card ran)
    cpc,          \* "idle" | "update" | "markup" | "ready" | "rebuilt"
    epub,         \* the EnrichedPub update_publications renders (<<>> if none)
    pub_markup,   \* the card block build_publications_html wrote for it
    \* ---- the repair run (main)
    rank_map,     \* the RankTable built by fetch_rank_map
    bib_authors,  \* what the bibliography files answer, by href
    registry,     \* what the registry answers to a query: [ok, items]
    rank_page,    \* the entries of the page the rank source serves
    file,         \* publications.html on disk
    doc,          \* the document main read
    cards,        \* the cards parse_cards has produced
    list_out,     \* the year groups _render_list produced
    prev,         \* the cards and the year groups of the run before
    runs,         \* how many repair runs have started
    exit_status,  \* None while the run is going, then "0" or "1"
    printed,      \* the counts main prints at the end of the run
    pc            \* "idle" | "ready" | "start" | "parse" | "rendered" | "written" |
                  \* "exited" | "aborted"

vars == <<title, year, resp, tool, best, best_score, mpc,
          all_pubs, seen, deduped, di, dpc,
          card, out_card, cpc, epub, pub_markup,
          rank_map, bib_authors, registry,
          rank_page, file, doc, cards, list_out, prev, runs, exit_status, printed, pc>>

matchVars == <<title, year, resp, tool, best, best_score, mpc>>
dedupVars == <<all_pubs, seen, deduped, di, dpc>>
cardVars  == <<card, out_card, cpc, epub, pub_markup>>
envVars   == <<rank_map, bib_authors, registry>>
listVars  == <<rank_page, file, doc, cards, list_out, prev, runs, exit_status, printed, pc>>

None == "<None>"

\* Python truthiness of an Optional[str]
Truthy(s) == s # None /\ s # ""

----------------------------------------------------------------------------
(***************************************************************************)
(* Strings                                                                 *)
(***************************************************************************)

Ch(s, i) == SubSeq(s, i, i)

UpperChars == "ABCDEFGHIJKLMNOPQRSTUVWXYZ"
LowerChars == "abcdefghijklmnopqrstuvwxyz"
DigitChars == "0123456789"

CharSet(s) == {Ch(s, i) : i \in 1..Len(s)}

\* [a-z0-9]
AlnumLower == CharSet(LowerChars) \cup CharSet(DigitChars)

\* \s
WS == {" ", "\t", "\n"}

LowerOf == [c \in CharSet(UpperChars) |->
              Ch(LowerChars, CHOOSE i \in 1..26 : Ch(UpperChars, i) = c)]

\* the least i in from..to with P(i), 0 when there is none
first_where(from, to, P(_)) ==
    IF \E i \in from..to : P(i)
    THEN CHOOSE i \in from..to : P(i) /\ \A j \in from..(i - 1) : ~P(j)
    ELSE 0

\* str.casefold: character by character, so the halves can be folded apart
RECURSIVE casefold(_)
casefold(s) ==
    IF Len(s) = 0 THEN ""
    ELSE IF Len(s) = 1 THEN (IF s \in DOMAIN LowerOf THEN LowerOf[s] ELSE s)
    ELSE LET h == Len(s) \div 2
         IN  casefold(SubSeq(s, 1, h)) \o casefold(SubSeq(s, h + 1, Len(s)))

startswith(s, p) == Len(s) >= Len(p) /\ SubSeq(s, 1, Len(p)) = p

\* str.replace(old, new): left to right, non-overlapping
RECURSIVE replace(_, _, _)
replace(s, old, new) ==
    LET at(i) == SubSeq(s, i, i + Len(old) - 1) = old
        i == first_where(1, Len(s) - Len(old) + 1, at)
    IN  IF i = 0 THEN s
        ELSE SubSeq(s, 1, i - 1) \o new \o replace(SubSeq(s, i + Len(old), Len(s)), old, new)

\* sub in s
contains(s, sub) ==
    \E i \in 1..(Len(s) - Len(sub) + 1) : SubSeq(s, i, i + Len(sub) - 1) = sub

RECURSIVE lstrip(_, _)
lstrip(s, cls) ==
    IF s # "" /\ Ch(s, 1) \in cls THEN lstrip(Tail(s), cls) ELSE s

RECURSIVE rstrip(_, _)
rstrip(s, cls) ==
    IF s # "" /\ Ch(s, Len(s)) \in cls THEN rstrip(SubSeq(s, 1, Len(s) - 1), cls) ELSE s

\* str.strip() and str.strip(chars)
strip(s) == rstrip(lstrip(s, WS), WS)
strip_chars(s, cls) == rstrip(lstrip(s, cls), cls)

\* re.sub(r"[cls]", "", s): character by character
RECURSIVE remove_chars(_, _)
remove_chars(s, cls) ==
    IF Len(s) = 0 THEN ""
    ELSE IF Len(s) = 1 THEN (IF s \in cls THEN "" ELSE s)
    ELSE LET h == Len(s) \div 2
         IN  remove_chars(SubSeq(s, 1, h), cls) \o remove_chars(SubSeq(s, h + 1, Len(s)), cls)

\* re.sub(r"[cls]+", rep, s): every maximal run of characters of cls becomes rep
RECURSIVE sub_runs_in(_, _, _)
sub_runs_in(s, cls, rep) ==
    LET in_cls(i) == Ch(s, i) \in cls
        i == first_where(1, Len(s), in_cls)
    IN  IF i = 0 THEN s
        ELSE SubSeq(s, 1, i - 1) \o rep
             \o sub_runs_in(lstrip(SubSeq(s, i, Len(s)), cls), cls, rep)

\* re.sub(r"[^keep]+", rep, s)
RECURSIVE sub_runs_not_in(_, _, _)
sub_runs_not_in(s, keep, rep) ==
    LET in_keep(i) == Ch(s, i) \in keep
        out_keep(i) == ~in_keep(i)
        i == first_where(1, Len(s), out_keep)
    IN  IF i = 0 THEN s
        ELSE LET j == first_where(i, Len(s), in_keep)
             IN  SubSeq(s, 1, i - 1) \o rep
                 \o (IF j = 0 THEN "" ELSE sub_runs_not_in(SubSeq(s, j, Len(s)), keep, rep))

\* set(s.split()): the maximal runs of non-whitespace characters
split_set(s) ==
    LET n == Len(s)
        in_word(i) == Ch(s, i) \notin WS
        starts == {i \in 1..n : in_word(i) /\ (i = 1 \/ ~in_word(i - 1))}
        end(i) == CHOOSE j \in i..n : (j = n \/ ~in_word(j + 1)) /\ \A h \in i..j : in_word(h)
    IN  {SubSeq(s, i, end(i)) : i \in starts}

\* str(n) for n >= 0
RECURSIVE str(_)
str(n) == IF n < 10 THEN Ch(DigitChars, n + 1)
          ELSE str(n \div 10) \o Ch(DigitChars, (n % 10) + 1)

\* str.isdigit()
isdigit(s) == s # "" /\ \A i \in 1..Len(s) : Ch(s, i) \in CharSet(DigitChars)

\* int(s) for a string of digits
RECURSIVE int(_)
int(s) == IF s = "" THEN 0
          ELSE 10 * int(SubSeq(s, 1, Len(s) - 1))
               + ((CHOOSE i \in 1..10 : Ch(DigitChars, i) = Ch(s, Len(s))) - 1)

\* The character references html.escape writes, which html.unescape reads back.
HtmlEntities == << <<"&amp;", "&">>, <<"&lt;", "<">>, <<"&gt;", ">">>,
                   <<"&quot;", "\"">>, <<"&#x27;", "'">> >>

\* html.unescape: one left-to-right pass (the text a reference expands to is
\* not scanned again)
RECURSIVE html_unescape(_)
html_unescape(s) ==
    LET amp(i) == Ch(s, i) = "&"
        i == first_where(1, Len(s), amp)
        rest == SubSeq(s, i, Len(s))
    IN  IF i = 0 THEN s
        ELSE IF \E k \in 1..Len(HtmlEntities) : startswith(rest, HtmlEntities[k][1])
        THEN LET k == CHOOSE j \in 1..Len(HtmlEntities) : startswith(rest, HtmlEntities[j][1])
             IN  SubSeq(s, 1, i - 1) \o HtmlEntities[k][2]
                 \o html_unescape(SubSeq(rest, Len(HtmlEntities[k][1]) + 1, Len(rest)))
        ELSE SubSeq(s, 1, i) \o html_unescape(SubSeq(s, i + 1, Len(s)))

\* html.escape(s, quote=True); html.escape(s) has the same default
EscapedChars == {HtmlEntities[k][2] : k \in 1..Len(HtmlEntities)}

\* character by character
RECURSIVE html_escape(_)
html_escape(s) ==
    IF Len(s) = 0 THEN ""
    ELSE IF Len(s) = 1
         THEN (IF s \in EscapedChars
               THEN HtmlEntities[CHOOSE k \in 1..Len(HtmlEntities) : HtmlEntities[k][2] = s][1]
               ELSE s)
    ELSE LET h == Len(s) \div 2
         IN  html_escape(SubSeq(s, 1, h)) \o html_escape(SubSeq(s, h + 1, Len(s)))

----------------------------------------------------------------------------
(***************************************************************************)
(* The comparison keys                                                     *)
(***************************************************************************)

\* repair_publications._norm
_norm(s) ==
    LET s1 == html_unescape(s)
        s2 == casefold(s1)
        s3 == remove_chars(s2, {"{", "}", "\"", "'"})
        s4 == sub_runs_not_in(s3, AlnumLower, " ")
    IN  strip(sub_runs_in(s4, WS, " "))

\* update_publications._norm_title
_norm_title(t) ==
    LET t1 == casefold(t)
        t2 == sub_runs_not_in(t1, AlnumLower, " ")
    IN  strip(sub_runs_in(t2, WS, " "))


----------------------------------------------------------------------------
(***************************************************************************)
(* The registry matcher.  A registry item is [title, issued, author]:      *)
(* title is the first element of the item's "title" list ("" when the list *)
(* is missing or empty), issued is issued.date-parts[0][0] (0 when it is   *)
(* missing), author is the item's list of [given, family].                 *)
(* The registry's answer is [ok, items]: ok is FALSE when the request or   *)
(* the decoding of its body raised.                                        *)
(*                                                                         *)
(* A score is the pair [num, den] that stands for num / (100 * den):       *)
(* den is max(1, |union|) and num is 100 * |intersection| plus the bonus   *)
(* in hundredths times den.  Scores are compared exactly; the floating     *)
(* point sums of the code order the same way for word sets this small.     *)
(***************************************************************************)

NoItem == [title |-> None, issued |-> 0, author |-> <<>>]
NoScore == [num |-> -1, den |-> 1]
NoMatch == [item |-> NoItem, score |-> NoScore]

\* 0.08, in hundredths
YearBonus == 8
\* 0.35, in hundredths
Threshold == 35

Max(a, b) == IF a >= b THEN a ELSE b

ScoreLess(a, b) == a.num * b.den < b.num * a.den
ScoreBelowThreshold(a) == a.num < Threshold * a.den

\* y of score(): the item's year as a string, "" when it has none
issued_year(it) == IF it.issued # 0 THEN str(it.issued) ELSE ""

\* jaccard_plus_bonus with the bonus written 0.8 for 0.08
jaccard_plus_bonus_tenfold(want_set, cand_set, bonus) ==
    LET den == Max(1, Cardinality(want_set \cup cand_set))
    IN  [num |-> 100 * Cardinality(want_set \cap cand_set) + 10 * bonus * den, den |-> den]

\* jaccard_plus_bonus dividing by len(want_set) + len(cand_set), not by the union
jaccard_plus_bonus_sum(want_set, cand_set, bonus) ==
    LET den == Max(1, Cardinality(want_set) + Cardinality(cand_set))
    IN  [num |-> 100 * Cardinality(want_set \cap cand_set) + bonus * den, den |-> den]

\* len(want_set & cand_set) / max(1, len(want_set | cand_set)) + year_bonus
jaccard_plus_bonus(want_set, cand_set, bonus) ==
    LET den == Max(1, Cardinality(want_set \cup cand_set))
    IN  [num |-> 100 * Cardinality(want_set \cap cand_set) + bonus * den, den |-> den]

\* score() once the candidate's title is normalized: 0.0 when it is empty
score_of(want, cand, yr, it) ==
    IF cand = "" THEN [num |-> 0, den |-> 1]
    ELSE jaccard_plus_bonus(split_set(want), split_set(cand),
                            IF Truthy(yr) /\ issued_year(it) = yr THEN YearBonus ELSE 0)

\* repair_publications._crossref_best_match.score
_crossref_score(want, yr, it) == score_of(want, _norm(it.title), yr, it)

\* update_publications.crossref_best_match.score
crossref_score(want, yr, it) == score_of(want, _norm_title(it.title), yr, it)

\* max(items, key=score): the first item of maximal score
max_index(scores) ==
    CHOOSE i \in 1..Len(scores) :
        /\ \A j \in 1..Len(scores) : ~ScoreLess(scores[i], scores[j])
        /\ \A j \in 1..(i - 1) : ScoreLess(scores[j], scores[i])

\* accept_best without the acceptance threshold
accept_best_unfiltered(items, scores) ==
    LET i == max_index(scores)
    IN  [item |-> items[i], score |-> scores[i]]

\* best = max(items, key=score); None when score(best) < 0.35
accept_best(items, scores) ==
    LET i == max_index(scores)
    IN  IF ScoreBelowThreshold(scores[i])
        THEN [item |-> NoItem, score |-> scores[i]]
        ELSE [item |-> items[i], score |-> scores[i]]

\* repair_publications._crossref_best_match
_crossref_best_match(t, yr, r) ==
    IF ~r.ok THEN NoMatch
    ELSE IF r.items = <<>> THEN NoMatch
    ELSE LET want == _norm(t)
         IN  accept_best(r.items,
                         [i \in 1..Len(r.items) |-> _crossref_score(want, yr, r.items[i])])

\* update_publications.crossref_best_match
crossref_best_match(t, yr, r) ==
    IF ~r.ok THEN NoMatch
    ELSE IF r.items = <<>> THEN NoMatch
    ELSE LET want == _norm_title(t)
         IN  accept_best(r.items,
                         [i \in 1..Len(r.items) |-> crossref_score(want, yr, r.items[i])])

(***************************************************************************)
(* The inputs of the matcher's specification.                              *)
(***************************************************************************)

\* the longest candidate list the registry answers with
MaxCands == 2

\* "" is the year of update_publications (a Pub without a year), None that of
\* repair_publications (rebuild_card passes None for a card without a year).
QueryTitles == {"", "--", "Robot Path", "Robot's path", "swarm"}
QueryYears  == {"", None, "2020"}
CandTitles  == {"", "robot path", "Robot Team", "Robots Path"}
CandIssued  == {0, 2020}

Items == [title : CandTitles, issued : CandIssued, author : {<<>>}]

SeqsUpTo(S, n) == UNION {[1..k -> S] : k \in 0..n}

Responses == {[ok |-> FALSE, items |-> <<>>]}
             \cup {[ok |-> TRUE, items |-> its] : its \in SeqsUpTo(Items, MaxCands)}


----------------------------------------------------------------------------
(***************************************************************************)
(* repair_publications: the tables                                         *)
(***************************************************************************)

\* str.join over a sequence of strings
RECURSIVE join(_, _)
join(sep, xs) ==
    IF xs = <<>> THEN ""
    ELSE IF Len(xs) = 1 THEN xs[1]
    ELSE xs[1] \o sep \o join(sep, Tail(xs))

\* dict.get(key) on a table of <<key, value>> pairs, None when absent
table_get(table, key) ==
    IF \E k \in 1..Len(table) : table[k][1] = key
    THEN table[CHOOSE k \in 1..Len(table) : table[k][1] = key][2]
    ELSE None

MANUAL_RANKS == <<
    <<"dynamic delegation of behavior trees to enhance cooperation in robot teams", "Q2">>,
    <<"towards a robotic intrusion prevention system combining security and safety in cognitive social robots", "Q1">>,
    <<"open source robot localization for nonplanar environments", "Q2">>,
    <<"a visual questioning answering approach to enhance robot localization in indoor environments", "Q3">>,
    <<"regulated pure pursuit for robot path tracking", "Q2">>,
    <<"an autonomous ground robot to support firefighters interventions in indoor emergencies", "Q2">> >>

EXCLUDE_YEARS == {"", "Unknown", "1978", "1991"}

EXCLUDE_DOIS == {
    "10.1201/9781420031393-49",
    "10.4995/thesis/10251/38902",
    "10.5565/rev/tradumatica.7",
    "10.1109/crv.2009.18",
    "10.1109/icip.2009.5413736",
    "10.1007/3-540-45603-1_54",
    "10.1093/med/9780198779117.001.0001",
    "10.1109/conielecomp.2011.5749380",
    "10.5772/7351",
    "10.2307/j.ctv2s0jcdb.240",
    "10.1109/sice.2008.4655047",
    "10.25100/peu.680.cap8",
    "10.1201/9781003289623",
    "10.5821/dissertation-2117-363911",
    "10.15332/dt.inv.2020.01681",
    "10.1109/case56687.2023.10260363",
    "10.1109/isoirs65690.2025.11168047" }

EXCLUDE_TEXT_SNIPPETS == <<
    "una perspectiva de la inteligencia artificial en su 50 aniversario: campus",
    "robotica. unileon. es, 2007",
    "constraints 2, 3, 2013",
    "planning. wiki-the ai planning & pddl wiki",
    "leading with depth: the impact of emotions and relationships on leadership, 2023" >>

DOI_RANK_OVERRIDES == << <<"10.1017/s0263574708004414", "Q2">> >>

\* Two rows of _MOJIBAKE_REPL, in the table's order: a generic pair (the
\* mojibake of i-acute) and a name observed on the site.
_MOJIBAKE_REPL == << <<"#$", "|">>, <<"@%+", "{">>, <<"@%*", "}">>, <<"Mart#n", "Mart|n">> >>

(***************************************************************************)
(* repair_publications: the text functions                                 *)
(***************************************************************************)

\* _norm_text_for_filter
_norm_text_for_filter(s) ==
    LET s0 == IF Truthy(s) THEN s ELSE ""
        s1 == casefold(html_unescape(s0))
        s2 == replace(replace(replace(replace(s1, "{", "\""), "}", "\""), "^", "'"), "~", "-")
    IN  strip(sub_runs_in(s2, WS, " "))

\* `if d.startswith("0."): d = "10." + d[2:]`
restore_prefix(d) == IF startswith(d, "0.") THEN "10." \o SubSeq(d, 3, Len(d)) ELSE d

\* _norm_doi_for_match (str.lower and str.casefold agree on the model's text)
_norm_doi_for_match(doi) ==
    IF ~Truthy(doi) THEN ""
    ELSE restore_prefix(replace(replace(casefold(strip(html_unescape(doi))),
                                        "https://doi.org/", ""), "http://doi.org/", ""))

RECURSIVE fix_from(_, _)
fix_from(s, k) ==
    IF k > Len(_MOJIBAKE_REPL) THEN s
    ELSE fix_from(replace(s, _MOJIBAKE_REPL[k][1], _MOJIBAKE_REPL[k][2]), k + 1)

\* _fix_mojibake
_fix_mojibake(s) == IF ~Truthy(s) THEN s ELSE fix_from(s, 1)

\* _clean_url is applied by parse_cards; the cards of the model hold cleaned URLs.

OpenQuotes  == {"{", "\""}
CloseQuotes == {"}", "\""}

\* the text the group of [{"]([^}"]+)[}"] matches when the match starts at i,
\* None when there is no match at i
quoted_at(s, i) ==
    IF Ch(s, i) \notin OpenQuotes THEN None
    ELSE LET closes(k) == Ch(s, k) \in CloseQuotes
             j == first_where(i + 1, Len(s), closes)
         IN  IF j > i + 1 THEN SubSeq(s, i + 1, j - 1) ELSE None

\* re.search: the first i >= from with a match at i, 0 when there is none
first_quoted(s, from) ==
    LET matches(i) == quoted_at(s, i) # None
    IN  first_where(from, Len(s), matches)

\* extract_title_from_cite
extract_title_from_cite(cite) ==
    LET i == first_quoted(cite, 1)
    IN  IF i # 0
        THEN strip_chars(strip(quoted_at(cite, i)), {" ", ",", ".", ";"})
        ELSE strip_chars(strip(cite), {" ", ",", ".", ";"})

\* ^(.*?),\s*[{"] matches with its comma at i (the prefix has no line break)
authors_comma_at(cite, i) ==
    /\ Ch(cite, i) = ","
    /\ LET rest == lstrip(SubSeq(cite, i + 1, Len(cite)), WS)
       IN  rest # "" /\ Ch(rest, 1) \in OpenQuotes

\* the first such comma at or after from, 0 when there is none or a line
\* break comes first ("." does not match it)
first_authors_comma(cite, from) ==
    LET comma(i) == authors_comma_at(cite, i)
        line_break(i) == Ch(cite, i) = "\n"
        i == first_where(from, Len(cite), comma)
        b == first_where(from, Len(cite), line_break)
    IN  IF i = 0 \/ (b # 0 /\ b < i) THEN 0 ELSE i

\* extract_authors_from_cite
extract_authors_from_cite(cite) ==
    LET i == first_authors_comma(cite, 1)
    IN  IF i # 0 THEN strip(SubSeq(cite, 1, i - 1)) ELSE ""

(***************************************************************************)
(* repair_publications: the external sources                               *)
(***************************************************************************)

\* _bibtex_path_from_href: whether the href names a file under bibtex/
is_bibtex_href(href) == Truthy(href) /\ startswith(lstrip(href, {"/"}), "bibtex/")

\* _authors_from_bibtex_href; bib[href] is what _parse_bibtex_authors finds in
\* the file (<<>> when the file is missing, unreadable or has no author field)
_authors_from_bibtex_href(href, bib) ==
    IF ~is_bibtex_href(href) THEN <<>>
    ELSE IF href \in DOMAIN bib THEN bib[href] ELSE <<>>

RECURSIVE author_names(_)
author_names(authors) ==
    IF authors = <<>> THEN <<>>
    ELSE LET a == authors[1]
             name == strip(strip(a.given) \o " " \o strip(a.family))
         IN  (IF name # "" THEN <<name>> ELSE <<>>) \o author_names(Tail(authors))

\* `if not item: return []`, then the names of item.get("author")
item_authors(item) == IF item = NoItem THEN <<>> ELSE author_names(item.author)

\* _authors_from_crossref; reg is the registry's answer to the query
_authors_from_crossref(t, yr, reg) == item_authors(_crossref_best_match(t, yr, reg).item)

RECURSIVE clean_names(_)
clean_names(names) ==
    IF names = <<>> THEN <<>>
    ELSE (IF strip(names[1]) # "" THEN <<strip(sub_runs_in(names[1], WS, " "))>> ELSE <<>>)
         \o clean_names(Tail(names))

\* _format_author_list
_format_author_list(names) == join(", ", clean_names(names))

\* <.*?> matches at i: the end of the match, 0 when there is none
tag_end(s, i) ==
    LET closes(k) == Ch(s, k) = ">"
        j == first_where(i + 1, Len(s), closes)
    IN  IF Ch(s, i) = "<" /\ j # 0 /\ \A h \in (i + 1)..(j - 1) : Ch(s, h) # "\n"
        THEN j ELSE 0

\* re.sub(r"<.*?>", "", s)
RECURSIVE remove_tags(_)
remove_tags(s) ==
    LET opens(i) == tag_end(s, i) # 0
        i == first_where(1, Len(s), opens)
    IN  IF i = 0 THEN s
        ELSE SubSeq(s, 1, i - 1) \o remove_tags(SubSeq(s, tag_end(s, i) + 1, Len(s)))

\* \[(.*?)\]\([^)]*\) matches at i with its "](" at j
md_link_at(s, i, j) ==
    /\ Ch(s, i) = "["
    /\ SubSeq(s, j, j + 1) = "]("
    /\ \A h \in (i + 1)..(j - 1) : Ch(s, h) # "\n"
    /\ \E k \in (j + 2)..Len(s) : Ch(s, k) = ")"

\* re.sub(r"\[(.*?)\]\([^)]*\)", r"\1", s)
RECURSIVE md_links(_)
md_links(s) ==
    LET opens(i) == \E j \in (i + 1)..Len(s) : md_link_at(s, i, j)
        i == first_where(1, Len(s), opens)
        mid(j) == md_link_at(s, i, j)
        j == first_where(i + 1, Len(s), mid)
        closes(k) == Ch(s, k) = ")"
        e == first_where(j + 2, Len(s), closes)
    IN  IF i = 0 THEN s
        ELSE SubSeq(s, 1, i - 1) \o SubSeq(s, i + 1, j - 1) \o md_links(SubSeq(s, e + 1, Len(s)))

\* the badge fetch_rank_map gives a label
label_badge(label) ==
    IF startswith(label, "Journal Q") THEN replace(label, "Journal ", "")
    ELSE IF startswith(label, "Class") THEN label
    ELSE "Q?"

\* the key and the badge fetch_rank_map derives from one match of entry_re
entry_key(e) == _norm(strip(md_links(remove_tags(strip(e.title)))))
entry_badge(e) == label_badge(strip(e.label))

\* one match of entry_re as [key, badge, counts]: counts says whether the
\* entry reaches the mapping (`if key and badge and badge != "Q?"`)
parsed_entry(key, badge) ==
    [key |-> key, badge |-> badge, counts |-> key # "" /\ badge # "Q?"]
parsed_entries(entries) ==
    [i \in 1..Len(entries) |-> parsed_entry(entry_key(entries[i]), entry_badge(entries[i]))]

\* mapping[key] = badge over the entries in page order: a later entry of the
\* same key overwrites an earlier one
mapping_of(parsed) ==
    LET counted == {i \in 1..Len(parsed) : parsed[i].counts}
    IN  [k \in {parsed[i].key : i \in counted} |->
            parsed[CHOOSE i \in counted :
                      /\ parsed[i].key = k
                      /\ \A h \in counted : parsed[h].key = k => h <= i].badge]

\* fetch_rank_map on the matches of entry_re in the page
fetch_rank_map(entries) == mapping_of(parsed_entries(entries))

(***************************************************************************)
(* repair_publications: rebuild_card.  A Card is the record of the         *)
(* dataclass.  The rendered card is the record of what the markup holds:   *)
(*   where   the escaped text of the pub-where div                         *)
(*   year    the escaped text of the year badge, None when there is none   *)
(*   badge   the escaped text of the quality badge, None when there is none*)
(*   cite    the escaped text of the pub-cite paragraph                    *)
(*   doi     the DOI line's anchor [href, text], NoAnchor when there is no *)
(*           DOI line                                                      *)
(*   links   the anchors of the pub-links div, in order: [href, label]     *)
(***************************************************************************)

NoAnchor == [href |-> None, text |-> None]

\* <a href="href">label</a> in the link row of a card; download tells
\* whether the anchor carries the download attribute
anchor(href, label, download) == [href |-> href, label |-> label, download |-> download]

\* the year up to which the rank map is applied
RANK_CUTOFF_YEAR == 2022

\* x or y
Or(x, y) == IF Truthy(x) THEN x ELSE y

\* the card rebuild_card works on: the display repair of its texts
repaired_card(c) ==
    [c EXCEPT !.where = _fix_mojibake(c.where),
              !.cite  = _fix_mojibake(c.cite),
              !.doi   = IF Truthy(c.doi) THEN _fix_mojibake(c.doi) ELSE None,
              !.badge = _fix_mojibake(c.badge)]

\* the rank map applied to every year
rank_applies_any_year(c, key, rm) == key \in DOMAIN rm

\* the rank map applies: year <= 2022 and the key is in the map
rank_applies(c, key, rm) ==
    isdigit(c.year) /\ int(c.year) <= RANK_CUTOFF_YEAR /\ key \in DOMAIN rm

\* the sentinel left as it is
keep_unknown(v) == v

\* `if badge_value == "Q?": badge_value = ""`
blank_unknown(v) == IF v = "Q?" THEN "" ELSE v

\* badge_value of rebuild_card once the title's key is known
badge_for_key(c, rm, key) ==
    blank_unknown(
        IF rank_applies(c, key, rm) THEN rm[key]
        ELSE Or(table_get(MANUAL_RANKS, key),
                Or(table_get(DOI_RANK_OVERRIDES, _norm_doi_for_match(c.doi)),
                   Or(c.badge, "Q?"))))

\* badge_value of rebuild_card, for the repaired card c
resolve_badge(c, rm) == badge_for_key(c, rm, _norm(extract_title_from_cite(c.cite)))

DOI_RESOLVER == "https://doi.org/"

\* resolve_links without the promotion of a landing page: the DOI anchor
\* keeps the DOI URL and the landing page stays a "Link"
resolve_links_no_promotion(c) ==
    LET l2 == IF Truthy(c.doi_url) /\ Truthy(c.link_url) /\ strip(c.link_url) = strip(c.doi_url)
              THEN None ELSE c.link_url
        l3 == IF Truthy(c.doi_url) /\ Truthy(l2) /\ startswith(l2, DOI_RESOLVER) THEN None ELSE l2
    IN  [link_url |-> l3, doi_url |-> c.doi_url]

\* resolve_links with the promotion only: a link that is the DOI URL, or
\* another resolver URL, is not dropped
resolve_links_promotion_only(c) ==
    LET promote == /\ Truthy(c.doi) /\ Truthy(c.doi_url) /\ Truthy(c.link_url)
                   /\ ~startswith(c.link_url, DOI_RESOLVER)
        d1 == IF promote THEN c.link_url ELSE c.doi_url
        l1 == IF promote THEN None ELSE c.link_url
    IN  [link_url |-> l1, doi_url |-> d1]

\* link_url and doi_url of rebuild_card after the link resolution
resolve_links(c) ==
    LET promote == /\ Truthy(c.doi) /\ Truthy(c.doi_url) /\ Truthy(c.link_url)
                   /\ ~startswith(c.link_url, DOI_RESOLVER)
        d1 == IF promote THEN c.link_url ELSE c.doi_url
        l1 == IF promote THEN None ELSE c.link_url
        l2 == IF Truthy(d1) /\ Truthy(l1) /\ strip(l1) = strip(d1) THEN None ELSE l1
        l3 == IF Truthy(d1) /\ Truthy(l2) /\ startswith(l2, DOI_RESOLVER) THEN None ELSE l2
    IN  [link_url |-> l3, doi_url |-> d1]

\* resolve_paper preferring the profile URL to the identifier URL
resolve_paper_scholar_first(c, link_url) ==
    IF Truthy(c.paper_url) THEN c.paper_url
    ELSE Or(link_url, Or(c.scholar_url, Or(c.doi_url, "#")))

\* paper_url of rebuild_card; link_url is the link left by the link resolution
resolve_paper(c, link_url) ==
    IF Truthy(c.paper_url) THEN c.paper_url
    ELSE Or(link_url, Or(c.doi_url, Or(c.scholar_url, "#")))

RECURSIVE fix_all(_)
fix_all(names) ==
    IF names = <<>> THEN <<>> ELSE <<_fix_mojibake(names[1])>> \o fix_all(Tail(names))

\* authors_list with the registry asked first and the bibliography file
\* read only when the registry has no authors
resolve_authors_registry_first(c, t, bib, reg) ==
    LET from_reg == _authors_from_crossref(t, IF Truthy(c.year) THEN c.year ELSE None, reg)
    IN  fix_all(IF from_reg # <<>> THEN from_reg
                ELSE _authors_from_bibtex_href(c.bibtex_url, bib))

\* authors_list of rebuild_card: the bibliography file first, then the registry
resolve_authors(c, t, bib, reg) ==
    LET from_bib == _authors_from_bibtex_href(c.bibtex_url, bib)
    IN  fix_all(IF from_bib # <<>> THEN from_bib
                ELSE _authors_from_crossref(t, IF Truthy(c.year) THEN c.year ELSE None, reg))

\* cite_authors of rebuild_card before it is cleaned
authors_text(c, authors_list) ==
    IF authors_list # <<>> THEN _format_author_list(authors_list)
    ELSE extract_authors_from_cite(c.cite)

\* `if cite_authors: cite_authors = cite_authors.replace("...", "").strip(" ,")`
clean_authors(a) == IF a # "" THEN strip_chars(replace(a, "...", ""), {" ", ","}) ELSE a

\* cite_line of rebuild_card once the authors are known
cite_with(c, t, cite_authors) ==
    IF cite_authors # "" /\ t # ""
    THEN strip(cite_authors \o ", {" \o t \o ",} " \o c.where \o ".")
    ELSE c.cite

\* cite_line of rebuild_card
resolve_cite(c, t, bib, reg) ==
    cite_with(c, t, clean_authors(authors_text(c, resolve_authors(c, t, bib, reg))))

\* the markup of rebuild_card, from the values it has resolved
card_parts(c, badge_value, lk, paper_url, cite_line) ==
    [where |-> html_escape(c.where),
     year  |-> IF Truthy(c.year) THEN html_escape(c.year) ELSE None,
     badge |-> IF badge_value # "" THEN html_escape(badge_value) ELSE None,
     cite  |-> html_escape(cite_line),
     doi   |-> IF Truthy(c.doi) /\ Truthy(lk.doi_url)
               THEN [href |-> html_escape(lk.doi_url), text |-> html_escape(c.doi)]
               ELSE NoAnchor,
     links |-> (IF Truthy(lk.link_url)
                THEN <<anchor(html_escape(lk.link_url), "Link", FALSE)>> ELSE <<>>)
               \o (IF Truthy(c.scholar_url)
                   THEN <<anchor(html_escape(c.scholar_url), "Scholar", FALSE)>> ELSE <<>>)
               \o (IF Truthy(c.bibtex_url)
                   THEN <<anchor(html_escape(c.bibtex_url), "BibTeX", TRUE)>>
                   ELSE <<anchor("#", "BibTeX", FALSE)>>)
               \o <<anchor(html_escape(paper_url), "Paper", FALSE),
                    anchor("#", "Video", FALSE)>>]

\* rebuild_card for the repaired card c
rebuild_repaired(c, lk, rm, bib, reg) ==
    card_parts(c, resolve_badge(c, rm), lk, resolve_paper(c, lk.link_url),
               resolve_cite(c, extract_title_from_cite(c.cite), bib, reg))

\* the repaired card with its links resolved
rebuild_resolved(c, rm, bib, reg) == rebuild_repaired(c, resolve_links(c), rm, bib, reg)

\* rebuild_card
rebuild_card(c0, rm, bib, reg) == rebuild_resolved(repaired_card(c0), rm, bib, reg)

(***************************************************************************)
(* repair_publications: the filter and the renderer                        *)
(***************************************************************************)

\* `if doi and doi in EXCLUDE_DOIS`
excluded_doi(doi) == doi # "" /\ doi \in EXCLUDE_DOIS

\* _should_exclude comparing the DOI as written with the exclusion set
_should_exclude_raw_doi(c) ==
    \/ Or(c.year, "") \in EXCLUDE_YEARS
    \/ (Truthy(c.doi) /\ c.doi \in EXCLUDE_DOIS)
    \/ LET text == _norm_text_for_filter(
                       join(" ", <<Or(c.where, ""), Or(c.cite, ""), Or(c.doi, "")>>))
       IN  \E k \in 1..Len(EXCLUDE_TEXT_SNIPPETS) : contains(text, EXCLUDE_TEXT_SNIPPETS[k])

\* _should_exclude
_should_exclude(c) ==
    \/ Or(c.year, "") \in EXCLUDE_YEARS
    \/ excluded_doi(_norm_doi_for_match(c.doi))
    \/ LET text == _norm_text_for_filter(
                       join(" ", <<Or(c.where, ""), Or(c.cite, ""), Or(c.doi, "")>>))
       IN  \E k \in 1..Len(EXCLUDE_TEXT_SNIPPETS) : contains(text, EXCLUDE_TEXT_SNIPPETS[k])

\* the cards _render_list groups: kept by the filter, with a numeric year
\* that is not an excluded year
\* the grouping test with a year check that drops the cards of 2022
is_grouped_before_2022(c) ==
    /\ ~_should_exclude(c)
    /\ Truthy(c.year) /\ isdigit(c.year) /\ int(c.year) < 2022
    /\ c.year \notin EXCLUDE_YEARS

is_grouped(c) ==
    /\ ~_should_exclude(c)
    /\ Truthy(c.year) /\ isdigit(c.year)
    /\ c.year \notin EXCLUDE_YEARS

\* the keys of by_year in insertion order: the years of the grouped cards in
\* order of first appearance
RECURSIVE year_keys(_, _, _)
year_keys(cs, i, acc) ==
    IF i > Len(cs) THEN acc
    ELSE IF is_grouped(cs[i]) /\ \A k \in 1..Len(acc) : acc[k] # cs[i].year
         THEN year_keys(cs, i + 1, Append(acc, cs[i].year))
         ELSE year_keys(cs, i + 1, acc)

\* sorted(by_year.keys(), key=int) without reverse=True
RECURSIVE sorted_asc(_)
sorted_asc(ys) ==
    IF ys = <<>> THEN <<>>
    ELSE LET i == CHOOSE k \in 1..Len(ys) : \A h \in 1..Len(ys) : int(ys[k]) <= int(ys[h])
         IN  <<ys[i]>> \o sorted_asc(SubSeq(ys, 1, i - 1) \o SubSeq(ys, i + 1, Len(ys)))

\* sorted(keys, key=int, reverse=True): stable, so years of equal value keep
\* their order
RECURSIVE sorted_desc(_)
sorted_desc(ys) ==
    IF ys = <<>> THEN <<>>
    ELSE LET i == CHOOSE k \in 1..Len(ys) :
                      /\ \A h \in 1..Len(ys) : int(ys[h]) <= int(ys[k])
                      /\ \A h \in 1..(k - 1) : int(ys[h]) < int(ys[k])
         IN  <<ys[i]>> \o sorted_desc(SubSeq(ys, 1, i - 1) \o SubSeq(ys, i + 1, Len(ys)))

\* by_year[y] filled in an order that changes from one run to the next
RECURSIVE year_items_run_order(_, _, _, _, _, _)
year_items_run_order(cs, y, i, rm, bib, reg) ==
    IF i > Len(cs) THEN <<>>
    ELSE LET item == IF is_grouped(cs[i]) /\ cs[i].year = y
                     THEN <<[src |-> i, html |-> rebuild_card(cs[i], rm, bib, reg)]>>
                     ELSE <<>>
             rest == year_items_run_order(cs, y, i + 1, rm, bib, reg)
         IN  IF runs % 2 = 1 THEN item \o rest ELSE rest \o item

\* by_year[y]: the rebuilt cards of year y in input order; src is the index
\* of the card in the input, html its markup
RECURSIVE year_items(_, _, _, _, _, _)
year_items(cs, y, i, rm, bib, reg) ==
    IF i > Len(cs) THEN <<>>
    ELSE (IF is_grouped(cs[i]) /\ cs[i].year = y
          THEN <<[src |-> i, html |-> rebuild_card(cs[i], rm, bib, reg)]>>
          ELSE <<>>) \o year_items(cs, y, i + 1, rm, bib, reg)

\* the year groups of _render_list, each a heading and its list of cards
year_groups(cs, ys, rm, bib, reg) ==
    [g \in 1..Len(ys) |->
        [year |-> html_escape(ys[g]), items |-> year_items(cs, ys[g], 1, rm, bib, reg)]]

\* _render_list
_render_list(cs, rm, bib, reg) ==
    year_groups(cs, sorted_desc(year_keys(cs, 1, <<>>)), rm, bib, reg)

----------------------------------------------------------------------------
(***************************************************************************)
(* The document.  publications.html is a sequence of pieces: runs of       *)
(* whitespace, the three pieces of markup main searches for                *)
(* (<section>, <h2>List</h2>, </section>), the card blocks parse_cards     *)
(* searches for, the headings and list wrappers _render_list writes, and   *)
(* other markup.  Whitespace is kept character by character, because the   *)
(* \s* of main's pattern decides where the spliced text starts and ends.   *)
(* A document never holds two whitespace pieces side by side, so two       *)
(* documents are the same text exactly when they are the same sequence.    *)
(*                                                                         *)
(* A card block is the record of what its markup holds: the venue line,    *)
(* the year badge, the quality badge, the citation paragraph, the DOI      *)
(* anchor and the anchors of the link row (None where the element is       *)
(* missing).  rebuild_card writes every block from one template, so two    *)
(* rebuilt blocks are the same text exactly when their records are equal.  *)
(***************************************************************************)

NoBlock == [where |-> None, year |-> None, badge |-> None, cite |-> None,
            doi |-> NoAnchor, links |-> <<>>]

piece(kind, text, block) == [kind |-> kind, text |-> text, block |-> block]

ws(text)       == piece("ws", text, NoBlock)
markup(text)   == piece("markup", text, NoBlock)
article(block) == piece("article", "", block)
SectionOpen    == piece("section", "<section>", NoBlock)
ListHeading    == piece("h2", "<h2>List</h2>", NoBlock)
SectionClose   == piece("endsection", "</section>", NoBlock)
YearHeading(y) == piece("h3", y, NoBlock)
PubListOpen    == piece("div", "<div class=pub-list>", NoBlock)
PubListClose   == piece("enddiv", "</div>", NoBlock)

\* a + b on document text: whitespace that meets at the seam is one run
cat(a, b) ==
    IF a # <<>> /\ b # <<>> /\ a[Len(a)].kind = "ws" /\ b[1].kind = "ws"
    THEN SubSeq(a, 1, Len(a) - 1) \o <<ws(a[Len(a)].text \o b[1].text)>> \o Tail(b)
    ELSE a \o b

\* _clean_url, the loop that undoes over-escaped entities: u after at most n
\* more rounds of html.unescape, new_u being html.unescape(u)
RECURSIVE unescape_loop(_, _, _)
unescape_loop(u, new_u, n) ==
    IF new_u = u THEN u
    ELSE IF n = 1 THEN new_u
    ELSE unescape_loop(new_u, html_unescape(new_u), n - 1)

unescape_repeated(u) == unescape_loop(u, html_unescape(u), 4)

\* _clean_url
_clean_url(u) ==
    IF ~Truthy(u) THEN None ELSE unescape_repeated(remove_chars(strip(u), WS))

\* the anchors of a block that the link pattern of parse_cards matches, in
\* document order: the DOI anchor, then the link row; the pattern wants a
\* non-empty href and a non-empty label
block_anchors(b) ==
    SelectSeq((IF b.doi # NoAnchor THEN <<[href |-> b.doi.href, label |-> b.doi.text]>>
               ELSE <<>>)
              \o [i \in 1..Len(b.links) |->
                     [href |-> b.links[i].href, label |-> b.links[i].label]],
              LAMBDA a : a.href # "" /\ a.label # "")

\* links.get(label) of the dict {label: _clean_url(href)}: a later anchor of
\* the same label replaces an earlier one
links_get(as, label) ==
    IF \E i \in 1..Len(as) : as[i].label = label
    THEN _clean_url(as[CHOOSE i \in 1..Len(as) :
                           /\ as[i].label = label
                           /\ \A k \in (i + 1)..Len(as) : as[k].label # label].href)
    ELSE None

\* the DOI pattern of parse_cards matches: the block has a DOI line whose
\* anchor has a non-empty href
has_doi(b) == b.doi # NoAnchor /\ b.doi.href # ""

\* the Card parse_cards builds from one block and its link dict
parsed_card(b, links) ==
    [year  |-> IF b.year # None /\ Len(b.year) = 4 /\ isdigit(b.year) THEN b.year ELSE "",
     where |-> IF b.where # None THEN strip(html_unescape(b.where)) ELSE "",
     cite  |-> IF b.cite # None
               THEN strip(html_unescape(sub_runs_in(b.cite, WS, " "))) ELSE "",
     doi     |-> IF has_doi(b) THEN strip(html_unescape(b.doi.text)) ELSE None,
     doi_url |-> IF has_doi(b) THEN _clean_url(b.doi.href) ELSE None,
     scholar_url |-> _clean_url(links_get(links, "Scholar")),
     bibtex_url  |-> _clean_url(links_get(links, "BibTeX")),
     link_url    |-> _clean_url(links_get(links, "Link")),
     paper_url   |-> _clean_url(links_get(links, "Paper")),
     badge |-> IF b.badge # None THEN strip(html_unescape(b.badge)) ELSE "Q?"]

\* the body of the loop of parse_cards on one block
parse_block(b) == parsed_card(b, block_anchors(b))

\* re.findall of the card pattern: the card blocks of the document, in order
find_blocks(d) == SelectSeq(d, LAMBDA p : p.kind = "article")

\* parse_cards
parse_cards(d) == [i \in 1..Len(find_blocks(d)) |-> parse_block(find_blocks(d)[i].block)]

\* "\n".join(items) of one year group, with the newline that joins it to the
\* line before it
RECURSIVE items_markup(_, _)
items_markup(items, k) ==
    IF k > Len(items) THEN <<>>
    ELSE <<ws("\n      "), article(items[k].html)>> \o items_markup(items, k + 1)

\* the four parts _render_list appends for year group g, joined by newlines
\* to each other and to the parts before them
RECURSIVE groups_markup(_, _)
groups_markup(gs, g) ==
    IF g > Len(gs) THEN <<>>
    ELSE <<ws(IF g = 1 THEN "    " ELSE "\n    "), YearHeading(gs[g].year),
           ws("\n    "), PubListOpen>>
         \o items_markup(gs[g].items, 1)
         \o <<ws("\n    "), PubListClose>>
         \o groups_markup(gs, g + 1)

\* the text _render_list returns: "\n".join(parts) + "\n"
list_markup(gs) == groups_markup(gs, 1) \o <<ws("\n")>>

\* piece i of the document exists and is of kind k
piece_is(d, i, k) == i >= 1 /\ i <= Len(d) /\ d[i].kind = k

\* \s* at piece i: the piece after the whitespace that starts there
skip_ws(d, i) == IF piece_is(d, i, "ws") THEN i + 1 ELSE i

\* <section>\s*<h2>List</h2> matches at piece i and a </section> follows
section_at(d, i) ==
    /\ piece_is(d, i, "section")
    /\ piece_is(d, skip_ws(d, i + 1), "h2")
    /\ \E k \in (skip_ws(d, i + 1) + 1)..Len(d) : d[k].kind = "endsection"

\* the piece where group 2 of the match at piece i starts: after the heading
\* and the whitespace that follows it
group2_start(d, i) == skip_ws(d, skip_ws(d, i + 1) + 1)

\* the piece after group 2 when it starts at piece s and the first </section>
\* from there is piece k: the lazy group stops before the whitespace that
\* leads up to </section>
group2_stop(d, s, k) == IF k - 1 >= s /\ d[k - 1].kind = "ws" THEN k - 1 ELSE k

\* m.start(2) and m.end(2) for the match that starts at piece i
section_span(d, s) ==
    [start |-> s,
     stop  |-> group2_stop(d, s, first_where(s, Len(d), LAMBDA k : d[k].kind = "endsection"))]

\* re.search with the pattern (<section>\s*)(.*?)(\s*</section>), which asks
\* for no List heading
find_any_section(d) ==
    IF \E i \in 1..Len(d) : piece_is(d, i, "section") /\ \E k \in (i + 1)..Len(d) : d[k].kind = "endsection"
    THEN [found |-> TRUE,
          span |-> section_span(d, skip_ws(d, 1 + first_where(1, Len(d),
                       LAMBDA i : piece_is(d, i, "section")
                                  /\ \E k \in (i + 1)..Len(d) : d[k].kind = "endsection")))]
    ELSE [found |-> FALSE, span |-> [start |-> 0, stop |-> 0]]

\* re.search of the List section in main: the leftmost match, found FALSE
\* when there is none
find_list_section(d) ==
    IF \E i \in 1..Len(d) : section_at(d, i)
    THEN [found |-> TRUE,
          span |-> section_span(d, group2_start(d,
                       first_where(1, Len(d), LAMBDA i : section_at(d, i))))]
    ELSE [found |-> FALSE, span |-> [start |-> 0, stop |-> 0]]

\* new_doc = doc[: m.start(2)] + new_list, the rest of the document lost
splice_without_rest(d, span, new_list) == cat(SubSeq(d, 1, span.start - 1), new_list)

\* new_doc = doc[: m.start(2)] + new_list + doc[m.end(2) :]
splice(d, span, new_list) ==
    cat(cat(SubSeq(d, 1, span.start - 1), new_list), SubSeq(d, span.stop, Len(d)))

\* removed = sum(1 for c in cards if _should_exclude(c))
removed_count(cs) == Cardinality({i \in 1..Len(cs) : _should_exclude(cs[i])})

\* the four lines main prints: "Parsed", "Removed", "Kept", "Rank map entries"
summary(cs, rm) ==
    [parsed  |-> Len(cs),
     removed |-> removed_count(cs),
     kept    |-> Len(cs) - removed_count(cs),
     rank_entries |-> Cardinality(DOMAIN rm)]

----------------------------------------------------------------------------
(***************************************************************************)
(* update_publications: the card block build_publications_html writes for  *)
(* one EnrichedPub ep (ep.pub is its Pub).                                 *)
(***************************************************************************)

\* where: the venue, with the year appended when the venue does not hold it
pub_where(p) ==
    IF Truthy(p.year) /\ ~contains(p.venue, p.year)
    THEN (IF p.venue # "" THEN p.venue \o ", " \o p.year ELSE p.year)
    ELSE p.venue

\* cite
pub_cite(p) ==
    sub_runs_in(strip(p.authors \o ", {" \o p.title \o ",} " \o p.venue \o ", " \o p.year \o "."),
                WS, " ")

\* link_url = ep.link_url or ep.doi_url or p.scholar_url
pub_link_url(ep) == Or(ep.link_url, Or(ep.doi_url, ep.pub.scholar_url))

\* paper_url = ep.pdf_url or link_url
pub_paper_url(ep) == Or(ep.pdf_url, pub_link_url(ep))

\* the label build_publications_html gives the anchor of a bibliography file
BIB_LABEL == "BiBTeX"

\* the anchor of the bibliography file
pub_bib_anchor(ep) ==
    IF Truthy(ep.bib_filename)
    THEN anchor(html_escape("bibtex/" \o ep.bib_filename), BIB_LABEL, TRUE)
    ELSE anchor("#", "BibTeX", FALSE)

\* the card block of build_publications_html
pub_card(ep) ==
    [where |-> html_escape(pub_where(ep.pub)),
     year  |-> IF Truthy(ep.pub.year) THEN html_escape(ep.pub.year) ELSE None,
     badge |-> "Q?",
     cite  |-> html_escape(pub_cite(ep.pub)),
     doi   |-> IF Truthy(ep.doi) /\ Truthy(ep.doi_url)
               THEN [href |-> html_escape(ep.doi_url), text |-> html_escape(ep.doi)]
               ELSE NoAnchor,
     links |-> <<anchor(html_escape(pub_link_url(ep)), "Link", FALSE),
                 anchor(html_escape(ep.pub.scholar_url), "Scholar", FALSE),
                 pub_bib_anchor(ep),
                 anchor(html_escape(pub_paper_url(ep)), "Paper", FALSE),
                 anchor("#", "Video", FALSE)>>]

----------------------------------------------------------------------------
(***************************************************************************)
(* What each part of the state holds while its specification is not the    *)
(* one being run.                                                          *)
(***************************************************************************)

MatchIdle ==
    /\ title = "" /\ year = "" /\ resp = [ok |-> FALSE, items |-> <<>>]
    /\ tool = "none" /\ best = NoItem /\ best_score = NoScore /\ mpc = "idle"

DedupIdle ==
    /\ all_pubs = <<>> /\ seen = {} /\ deduped = <<>> /\ di = 0 /\ dpc = "idle"

CardIdle ==
    /\ card = <<>> /\ out_card = <<>> /\ cpc = "idle"
    /\ epub = <<>> /\ pub_markup = <<>>

EnvIdle ==
    /\ rank_map = <<>> /\ bib_authors = <<>> /\ registry = [ok |-> FALSE, items |-> <<>>]

\* main has printed nothing (yet)
NothingPrinted == [parsed |-> -1, removed |-> -1, kept |-> -1, rank_entries |-> -1]

\* no run before this one
NoRun == [cards |-> <<>>, list_out |-> <<>>]

ListIdle ==
    /\ rank_page = <<>> /\ file = <<>> /\ doc = <<>>
    /\ cards = <<>> /\ list_out = <<>> /\ prev = NoRun
    /\ runs = 0 /\ exit_status = None /\ printed = NothingPrinted /\ pc = "idle"

----------------------------------------------------------------------------
(***************************************************************************)
(* SpecMatch: one call of the matcher of either tool on a query and a      *)
(* registry answer.                                                        *)
(***************************************************************************)

InitMatch ==
    /\ title \in QueryTitles
    /\ year \in QueryYears
    /\ resp \in Responses
    /\ tool = "none" /\ best = NoItem /\ best_score = NoScore
    /\ mpc = "ready"
    /\ DedupIdle /\ CardIdle /\ EnvIdle /\ ListIdle

\* repair_publications._crossref_best_match(title, year)
RepairMatch ==
    /\ mpc = "ready"
    /\ year # ""
    /\ LET r == _crossref_best_match(title, year, resp)
       IN  /\ best' = r.item
           /\ best_score' = r.score
    /\ tool' = "repair"
    /\ mpc' = "returned"
    /\ UNCHANGED <<title, year, resp, dedupVars, cardVars, envVars, listVars>>

\* update_publications.crossref_best_match(s, title, year)
UpdateMatch ==
    /\ mpc = "ready"
    /\ year # None
    /\ LET r == crossref_best_match(title, year, resp)
       IN  /\ best' = r.item
           /\ best_score' = r.score
    /\ tool' = "update"
    /\ mpc' = "returned"
    /\ UNCHANGED <<title, year, resp, dedupVars, cardVars, envVars, listVars>>

NextMatch == RepairMatch \/ UpdateMatch

SpecMatch == InitMatch /\ [][NextMatch]_vars


----------------------------------------------------------------------------
(***************************************************************************)
(* Properties of the matcher (under SpecMatch)                             *)
(***************************************************************************)

\* the comparison key the tool that ran uses
ToolNorm(s) == IF tool = "repair" THEN _norm(s) ELSE _norm_title(s)

WantSet == split_set(ToolNorm(title))
CandSet(it) == split_set(ToolNorm(it.title))

\* the year bonus applies to the item
YearMatches(it) == Truthy(year) /\ issued_year(it) = year

AllDisjoint ==
    \A i \in 1..Len(resp.items) : WantSet \cap CandSet(resp.items[i]) = {}

\* C7: when every candidate's normalized word set is disjoint from the
\* query's, the matcher returns no match, also when a candidate's year
\* equals the query year.
C7_DisjointNeverMatches ==
    (mpc = "returned" /\ AllDisjoint) => best = NoItem

\* a call where the words are disjoint, both sides have words, and the year
\* bonus applies to a candidate
C7_Witness ==
    /\ mpc = "returned" /\ resp.ok /\ resp.items # <<>>
    /\ AllDisjoint
    /\ WantSet # {}
    /\ \E i \in 1..Len(resp.items) :
          CandSet(resp.items[i]) # {} /\ YearMatches(resp.items[i])
    /\ best = NoItem

\* C8: a call with an empty candidate list returns (mpc = "returned") no
\* match, and a call with an empty query title returns no match whatever the
\* candidates are.
C8_EmptyInputsNoMatch ==
    (mpc = "returned" /\ (resp.items = <<>> \/ title = "")) => best = NoItem

\* a returned call with an empty title, a candidate with a title and the
\* year of the query
C8_Witness ==
    /\ mpc = "returned" /\ title = ""
    /\ \E i \in 1..Len(resp.items) :
          CandSet(resp.items[i]) # {} /\ YearMatches(resp.items[i])
    /\ best = NoItem

SingleIdentical ==
    /\ mpc = "returned" /\ resp.ok /\ Len(resp.items) = 1
    /\ ToolNorm(resp.items[1].title) = ToolNorm(title)
    /\ ~Truthy(year)

IsPerfect(sc) == sc.num = 100 * sc.den

\* C9 as stated: for every title A, with no query year, a single candidate
\* whose normalized title equals the normalized A scores exactly 1.0 and is
\* returned.
C9_PerfectMatchAnyTitle ==
    SingleIdentical => (IsPerfect(best_score) /\ best = resp.items[1])

\* C9, amended: the same for every title A whose normalized form is not
\* empty.
C9_PerfectMatchNonEmpty ==
    (SingleIdentical /\ ToolNorm(title) # "")
        => (IsPerfect(best_score) /\ best = resp.items[1])

\* a perfect match between titles that differ as written
C9_Witness ==
    /\ SingleIdentical /\ ToolNorm(title) # ""
    /\ resp.items[1].title # title
    /\ best = resp.items[1]

\* the Jaccard similarity of the titles alone is below 0.35
JaccardBelowThreshold(it) ==
    ScoreBelowThreshold(jaccard_plus_bonus(WantSet, CandSet(it), 0))

\* C10: a candidate whose title similarity alone is below 0.35 is never
\* returned, even when its year equals the query year.
C10_BonusNeverPromotes ==
    (mpc = "returned" /\ best # NoItem) => ~JaccardBelowThreshold(best)


----------------------------------------------------------------------------
(***************************************************************************)
(* SpecDedup: update_publications.fetch_scholar_publications.  The profile *)
(* is fetched page by page until a page has no rows (or the page range is  *)
(* exhausted), then the records are deduplicated in fetch order.           *)
(***************************************************************************)

\* the most records the profile holds
MaxPubs == 3

PubTitles == {"Robot Path", "robot path", "Robot-Path"}
PubYears  == {"2020", "2021"}

\* update_publications.Pub
Pubs == [title : PubTitles, authors : {"F Rico"}, venue : {"J. Robots"},
         year : PubYears, scholar_url : {"https://scholar.google.com/c?id=1"}]

\* the rows of one profile page, as _parse_profile_rows returns them
Pages == SeqsUpTo(Pubs, 2) \ {<<>>}

InitDedup ==
    /\ all_pubs = <<>> /\ seen = {} /\ deduped = <<>> /\ di = 0
    /\ dpc = "fetch"
    /\ MatchIdle /\ CardIdle /\ EnvIdle /\ ListIdle

\* a page with rows: all_pubs.extend(pubs)
FetchPage ==
    /\ dpc = "fetch"
    /\ \E page \in Pages :
          /\ Len(all_pubs) + Len(page) <= MaxPubs
          /\ all_pubs' = all_pubs \o page
    /\ UNCHANGED <<seen, deduped, di, dpc, matchVars, cardVars, envVars, listVars>>

\* a page without rows ends the fetch loop (`if not pubs: break`)
FetchLastPage ==
    /\ dpc = "fetch"
    /\ dpc' = "dedup"
    /\ di' = 1
    /\ UNCHANGED <<all_pubs, seen, deduped, matchVars, cardVars, envVars, listVars>>

\* _get_text raises (r.raise_for_status()): the exception leaves the function
FetchRaises ==
    /\ dpc = "fetch"
    /\ dpc' = "raised"
    /\ UNCHANGED <<all_pubs, seen, deduped, di, matchVars, cardVars, envVars, listVars>>

\* key = (p.title.casefold(), p.year)
dedup_key(p) == <<casefold(p.title), p.year>>

\* one iteration of `for p in all_pubs`
DedupStep ==
    /\ dpc = "dedup"
    /\ di <= Len(all_pubs)
    /\ LET p == all_pubs[di]
           key == dedup_key(p)
       IN  IF key \in seen
           THEN UNCHANGED <<seen, deduped>>
           ELSE /\ seen' = seen \cup {key}
                /\ deduped' = Append(deduped, p)
    /\ di' = di + 1
    /\ UNCHANGED <<all_pubs, dpc, matchVars, cardVars, envVars, listVars>>

\* return deduped
DedupReturn ==
    /\ dpc = "dedup"
    /\ di > Len(all_pubs)
    /\ dpc' = "done"
    /\ UNCHANGED <<all_pubs, seen, deduped, di, matchVars, cardVars, envVars, listVars>>

NextDedup == FetchPage \/ FetchLastPage \/ FetchRaises \/ DedupStep \/ DedupReturn

SpecDedup == InitDedup /\ [][NextDedup]_vars

(***************************************************************************)
(* Properties of the deduplication (under SpecDedup)                       *)
(***************************************************************************)

\* the key of the claim: the normalized title and the year
NormKey(p) == <<_norm_title(p.title), p.year>>

\* the records of ps that no earlier record of ps shares its NormKey with,
\* in the order of ps
RECURSIVE FirstByNormKey(_, _)
FirstByNormKey(ps, i) ==
    IF i > Len(ps) THEN <<>>
    ELSE (IF \E j \in 1..(i - 1) : NormKey(ps[j]) = NormKey(ps[i])
          THEN <<>> ELSE <<ps[i]>>) \o FirstByNormKey(ps, i + 1)

\* C3: of the records that share a normalized title and a year only the
\* first in fetch order is in the result, and the survivors keep their
\* relative order.
C3_DedupByNormalizedTitle ==
    dpc = "done" => deduped = FirstByNormKey(all_pubs, 1)


----------------------------------------------------------------------------
(***************************************************************************)
(* SpecCard: rebuild_card on one card, with a rank map, the bibliography   *)
(* files and the registry as they are during the run.                      *)
(***************************************************************************)

ManualTitle == "Regulated Pure Pursuit for Robot Path Tracking"

\* the matches of entry_re in the rank page
RankPages == {
    <<>>,
    <<[label |-> "Journal Q1", title |-> "<a href=\"p\">" \o ManualTitle \o "</a>"]>>,
    <<[label |-> "Journal Q2", title |-> ManualTitle],
      [label |-> "Class 2", title |-> "[A Study](http://x.org/s)"],
      [label |-> "Journal", title |-> "Unranked"]>> }

RankMaps == {fetch_rank_map(page) : page \in RankPages}

BibHref == "bibtex/10.1000_xyz.bib"

\* the author lists of the bibliography files, by href
NoBibAuthors == [h \in {BibHref} |-> <<>>]
BibAuthors   == [h \in {BibHref} |-> <<"Steve Macenski", "Francisco  Mart#n">>]

RegistryFails   == [ok |-> FALSE, items |-> <<>>]
RegistryAnswers == [ok |-> TRUE,
                    items |-> <<[title |-> "A study", issued |-> 2022,
                                 author |-> <<[given |-> "Jane", family |-> "Smith"]>>]>>]

\* where the authors can come from: the bibliography file, the registry, or
\* neither (when the file has authors the registry is not asked)
AuthorSources == { [bib |-> BibAuthors,   reg |-> RegistryFails],
                   [bib |-> NoBibAuthors, reg |-> RegistryAnswers],
                   [bib |-> NoBibAuthors, reg |-> RegistryFails] }

CardYears   == {"", "2022", "2023"}
CardCites   == { "S. Macenski, ..., {" \o ManualTitle \o ",} J. Robots.",
                 "S. Macenski, ..., @%+" \o ManualTitle \o ",@%* J. Robots.",
                 "J. Smith, {A Study,} Journal X.",
                 "A Study" }
CardDois    == {None, "10.1000/xyz", "10.1017/S0263574708004414"}
CardDoiUrls == {None, "https://doi.org/10.1000/xyz"}
CardLinks   == {None, "https://doi.org/10.1000/xyz", "https://doi.org/10.9/other",
                "https://pub.example/p?a=1&b=2"}
CardScholar == {None, "https://scholar.example/c1"}
CardPapers  == {None, "https://pub.example/p.pdf"}
CardBibs    == {None, BibHref}
CardBadges  == {"Q?", "Q3"}

\* repair_publications.Card, as parse_cards builds it: doi and doi_url come
\* from the same DOI line, so a card has both or neither
Cards == {c \in [year : CardYears, where : {"J. Robots"}, cite : CardCites,
                 doi : CardDois, doi_url : CardDoiUrls, scholar_url : CardScholar,
                 bibtex_url : CardBibs, link_url : CardLinks, paper_url : CardPapers,
                 badge : CardBadges] :
             (c.doi = None) <=> (c.doi_url = None)}

\* The external sources of a run.  The rank map only reaches the badge and
\* the author sources only reach the citation line, so they are varied one
\* at a time around a fixed other.
Worlds ==
    {[rm |-> rm, src |-> [bib |-> NoBibAuthors, reg |-> RegistryFails]] : rm \in RankMaps}
    \cup {[rm |-> fetch_rank_map(<<>>), src |-> src] : src \in AuthorSources}

InitCard ==
    /\ card \in Cards
    /\ \E w \in Worlds :
          /\ rank_map = w.rm
          /\ bib_authors = w.src.bib
          /\ registry = w.src.reg
    /\ out_card = <<>>
    /\ cpc = "ready"
    /\ epub = <<>> /\ pub_markup = <<>>
    /\ MatchIdle /\ DedupIdle /\ ListIdle

\* rebuild_card(card, rank_map)
RebuildCard ==
    /\ cpc = "ready"
    /\ out_card' = rebuild_card(card, rank_map, bib_authors, registry)
    /\ cpc' = "rebuilt"
    /\ UNCHANGED <<card, epub, pub_markup, envVars, matchVars, dedupVars, listVars>>

NextCard == RebuildCard

SpecCard == InitCard /\ [][NextCard]_vars


(***************************************************************************)
(* Properties of rebuild_card (under SpecCard)                             *)
(***************************************************************************)

Rebuilt == cpc = "rebuilt"

\* the key rebuild_card looks the card's title up with
CardKey == _norm(extract_title_from_cite(_fix_mojibake(card.cite)))

\* the hrefs of the anchors of the pub-links div with the label
LinkHrefs(label) ==
    {out_card.links[i].href : i \in {k \in 1..Len(out_card.links) : out_card.links[k].label = label}}

HasDoiAndLink == Truthy(card.doi) /\ Truthy(card.doi_url) /\ Truthy(card.link_url)

\* C1: a card whose normalized title has a curator override in MANUAL_RANKS
\* and an entry in the rank map is rendered with the curator override as its
\* quality badge, whatever its year and whatever the rank map holds.
C1_ManualOverrideWins ==
    (Rebuilt /\ table_get(MANUAL_RANKS, CardKey) # None /\ CardKey \in DOMAIN rank_map)
        => out_card.badge = html_escape(table_get(MANUAL_RANKS, CardKey))

\* C4: a card with a DOI, a DOI URL and a generic link textually equal to the
\* DOI URL is rendered without a "Link" anchor and with the DOI line pointing
\* at the DOI URL.
C4_RedundantLinkDropped ==
    (Rebuilt /\ HasDoiAndLink /\ card.link_url = card.doi_url)
        => /\ LinkHrefs("Link") = {}
           /\ out_card.doi # NoAnchor
           /\ out_card.doi.href = html_escape(card.doi_url)

\* a rebuilt card whose link is its DOI URL
C4_Witness ==
    /\ Rebuilt /\ HasDoiAndLink /\ card.link_url = card.doi_url
    /\ out_card.doi.text = html_escape(card.doi)

\* C5: for a card with a DOI, a DOI URL and a generic link: a link that does
\* not point at the resolver becomes the target of the DOI anchor, a link
\* that does is dropped and the DOI anchor keeps the DOI URL; no "Link"
\* anchor is rendered in either case.
C5_LinkPromotedOrDropped ==
    (Rebuilt /\ HasDoiAndLink)
        => /\ LinkHrefs("Link") = {}
           /\ out_card.doi # NoAnchor
           /\ out_card.doi.href =
                 html_escape(IF startswith(card.link_url, DOI_RESOLVER)
                             THEN card.doi_url ELSE card.link_url)

\* a rebuilt card whose landing page took the place of the DOI URL
C5_Witness ==
    /\ Rebuilt /\ HasDoiAndLink
    /\ ~startswith(card.link_url, DOI_RESOLVER)
    /\ out_card.doi.href # html_escape(card.doi_url)

\* the first of the candidates that is present
RECURSIVE FirstAvailable(_)
FirstAvailable(xs) ==
    IF xs = <<>> THEN None
    ELSE IF Truthy(xs[1]) THEN xs[1] ELSE FirstAvailable(Tail(xs))

\* the generic link left by the link resolution: the target of the rendered
\* "Link" anchor, None when none is rendered
RemainingLink ==
    IF LinkHrefs("Link") = {} THEN None ELSE CHOOSE h \in LinkHrefs("Link") : TRUE

----------------------------------------------------------------------------
(***************************************************************************)
(* SpecRoundTrip: update_publications writes the card of one EnrichedPub,  *)
(* parse_cards of the repair run reads it, and rebuild_card writes it      *)
(* again.                                                                  *)
(***************************************************************************)

RoundTripPubs ==
    [title : {"A Study"}, authors : {"J. Smith"}, venue : {"Journal X", "Journal X 2021", ""},
     year : {"", "2021", "2023"}, scholar_url : {"https://scholar.example/c1"}]

\* the EnrichedPub records of main: a DOI comes with its URL, and
\* bib_filename is the name of the file written for the record
EnrichedPubs ==
    {ep \in [pub : RoundTripPubs,
             link_url : {None},
             doi : {None, "10.1000/xyz"}, doi_url : {None, "https://doi.org/10.1000/xyz"},
             pdf_url : {None, "https://pub.example/p.pdf"},
             bib_filename : {None, "10.1000_xyz.bib"}] :
        (ep.doi = None) <=> (ep.doi_url = None)}

InitRoundTrip ==
    /\ epub \in EnrichedPubs
    /\ pub_markup = <<>>
    /\ card = <<>>
    /\ out_card = <<>>
    /\ cpc = "update"
    /\ rank_map = <<>>
    /\ bib_authors \in {NoBibAuthors, BibAuthors}
    /\ registry = RegistryFails
    /\ MatchIdle /\ DedupIdle /\ ListIdle

\* build_publications_html writes the card of the record
WritePubCard ==
    /\ cpc = "update"
    /\ pub_markup' = pub_card(epub)
    /\ cpc' = "markup"
    /\ UNCHANGED <<card, out_card, epub, envVars, matchVars, dedupVars, listVars>>

\* parse_cards of the repair run reads the block
ParsePubCard ==
    /\ cpc = "markup"
    /\ card' = parse_block(pub_markup)
    /\ cpc' = "ready"
    /\ UNCHANGED <<out_card, epub, pub_markup, envVars, matchVars, dedupVars, listVars>>

NextRoundTrip == WritePubCard \/ ParsePubCard \/ RebuildCard

SpecRoundTrip == InitRoundTrip /\ [][NextRoundTrip]_vars

\* the reference to the bibliography file update_publications wrote
PubBibRef == "bibtex/" \o epub.bib_filename

\* C22: for a record update_publications renders with a bibliography file,
\* parse_cards recovers the reference to that file as the card's bibtex_url,
\* and the repair run then renders the card with the same bibliography
\* link: a BibTeX anchor with that href and the download attribute.
C22_BibliographyLinkRoundTrip ==
    (cpc \in {"ready", "rebuilt"} /\ Truthy(epub.bib_filename)) =>
        /\ card.bibtex_url = PubBibRef
        /\ cpc = "rebuilt" =>
              \E i \in 1..Len(out_card.links) :
                  /\ out_card.links[i].href = html_escape(PubBibRef)
                  /\ out_card.links[i].download

(***************************************************************************)
(* Properties of the badge and of the lookup keys (under SpecCard)         *)
(***************************************************************************)

\* the card's year is numeric and at most 2022
YearUpToCutoff == isdigit(card.year) /\ int(card.year) <= 2022

\* C18: for a card whose year is not numeric or is later than 2022, the
\* quality badge rebuild_card renders does not depend on the rank map: any
\* rank map in place of the run's yields the same badge.
C18_BadgeIgnoresRankMapPastCutoff ==
    (Rebuilt /\ ~YearUpToCutoff) =>
        \A rm \in RankMaps :
            rebuild_card(card, rm, bib_authors, registry).badge = out_card.badge

\* a rebuilt card of 2023 whose title the rank map ranks, rendered with
\* another badge than the rank map's
C18_Witness ==
    /\ Rebuilt /\ card.year = "2023"
    /\ CardKey \in DOMAIN rank_map
    /\ out_card.badge # html_escape(rank_map[CardKey])

\* C19: rebuild_card never renders the sentinel "Q?" as a quality badge,
\* for any card and any rank map fetch_rank_map builds (which never holds
\* the sentinel): a badge that resolves to the sentinel is left out.
C19_SentinelNeverRendered ==
    /\ \A key \in DOMAIN rank_map : rank_map[key] # "Q?"
    /\ Rebuilt =>
          /\ out_card.badge # "Q?"
          /\ (card.badge = "Q?" /\ out_card.badge # None) =>
                \/ table_get(MANUAL_RANKS, CardKey) # None
                \/ table_get(DOI_RANK_OVERRIDES, _norm_doi_for_match(card.doi)) # None
                \/ CardKey \in DOMAIN rank_map

\* a rebuilt card whose badge is the sentinel and that no override and no
\* rank map entry resolves: it is rendered without a quality badge
C19_Witness ==
    /\ Rebuilt /\ card.badge = "Q?"
    /\ table_get(MANUAL_RANKS, CardKey) = None
    /\ out_card.badge = None

\* the key of the card's title, taken from the text as parse_cards read it
UnrepairedKey == _norm(extract_title_from_cite(card.cite))

\* the badge as the markup holds it
rendered_badge(v) == IF v # "" THEN html_escape(v) ELSE None

\* C20: the lookup keys (the curator override by title, the rank map lookup
\* by title) are computed from the card's unrepaired text: the badge
\* rebuild_card renders is the one the key of the unrepaired citation
\* resolves to, the mojibake repair reaching only the rendered text.
C20_KeysFromUnrepairedText ==
    Rebuilt =>
        out_card.badge = rendered_badge(badge_for_key(repaired_card(card), rank_map, UnrepairedKey))

(***************************************************************************)
(* Properties of the citation line (under SpecCard)                        *)
(***************************************************************************)

\* the card as rebuild_card works on it, its title, and what the two author
\* sources yield for it
RepairedCard == repaired_card(card)
CardTitle    == extract_title_from_cite(RepairedCard.cite)
BibNames     == _authors_from_bibtex_href(card.bibtex_url, bib_authors)
RegistryNames(reg) ==
    _authors_from_crossref(CardTitle, IF Truthy(card.year) THEN card.year ELSE None, reg)

\* the author string of the citation line when the registry answers reg:
\* the names of the bibliography file, else the names of the registry, else
\* the author prefix of the citation text; dots of an ellipsis and outer
\* commas and spaces removed
AuthorString(reg) ==
    LET names == IF BibNames # <<>> THEN BibNames ELSE RegistryNames(reg)
        text  == IF names # <<>> THEN _format_author_list(fix_all(names))
                 ELSE extract_authors_from_cite(RepairedCard.cite)
    IN  strip_chars(replace(text, "...", ""), {" ", ","})

\* the citation line the claim asks for when the registry answers reg
ExpectedCite(reg) ==
    IF AuthorString(reg) # "" /\ CardTitle # ""
    THEN html_escape(AuthorString(reg) \o ", {" \o CardTitle \o ",} " \o RepairedCard.where \o ".")
    ELSE html_escape(RepairedCard.cite)

\* C21: in rebuild_card the registry is asked only when the bibliography
\* file yields no authors (with authors from the file, the citation line is
\* the same whatever the registry answers), and the author prefix of the
\* citation text is used only when neither source yields authors; with a
\* non-empty author string and a non-empty title the rendered citation line
\* is exactly "<authors>, <left quote><title>,<right quote> <venue>.", and
\* otherwise it is the card's (repaired) citation text.
C21_AuthorSourceOrder ==
    Rebuilt =>
        /\ out_card.cite = ExpectedCite(registry)
        /\ BibNames # <<>> =>
              \A reg \in {RegistryFails, RegistryAnswers} :
                  /\ rebuild_card(card, rank_map, bib_authors, reg).cite = out_card.cite
                  /\ ExpectedCite(reg) = out_card.cite

\* a rebuilt card whose bibliography file yields authors and whose title the
\* registry would match with other authors: the citation line is rebuilt
\* from the file's authors
C21_Witness ==
    /\ Rebuilt
    /\ BibNames # <<>>
    /\ RegistryNames(RegistryAnswers) # <<>>
    /\ CardTitle # ""
    /\ out_card.cite = html_escape(_format_author_list(fix_all(BibNames)) \o ", {" \o CardTitle
                                   \o ",} " \o RepairedCard.where \o ".")
    /\ out_card.cite # html_escape(RepairedCard.cite)

\* a rebuilt card for which neither source yields authors: the author prefix
\* of its citation text is used
C21_PrefixWitness ==
    /\ Rebuilt
    /\ BibNames = <<>> /\ RegistryNames(registry) = <<>>
    /\ extract_authors_from_cite(RepairedCard.cite) # ""
    /\ out_card.cite # html_escape(RepairedCard.cite)

(***************************************************************************)
(* Spec: repair runs (main) on publications.html.  A run reads the file,   *)
(* fetches the rank map, parses the cards block by block, renders the      *)
(* list, searches the List section and writes the file; the next run       *)
(* starts from the file the run before it wrote.  The external sources     *)
(* (the rank page, the registry, the bibliography files) are chosen once   *)
(* and answer every run alike, except that a fetch may fail.               *)
(***************************************************************************)

\* the most card blocks the first document holds
MaxCards == 2

\* the most repair runs in a row
MaxRuns == 2

ListDoi  == [href |-> "https://doi.org/10.5772/7351", text |-> "HTTPS://doi.org/10.5772/7351"]
ListCite == "J. Smith, {A Study,} Journal X."
ListSnippetCite == "F. Rico, {Robots,} Constraints 2, 3, 2013."

\* a hand-written card block
block(yr, cite, doi, links, badge) ==
    [where |-> "Journal X", year |-> yr, badge |-> badge, cite |-> cite,
     doi |-> doi, links |-> links]

\* the card blocks of the first document: a full card, a card with no link
\* row entry and no badge, a card with an excluded DOI, a card with an
\* excluded text, a card of an excluded year, a card without a year badge,
\* a card whose year badge holds no year, and a block without a citation
\* paragraph
ListBlocks ==
    { block("2022", ListCite, NoAnchor,
            <<anchor("https://scholar.example/c1", "Scholar", FALSE),
              anchor(BibHref, "BibTeX", TRUE),
              anchor("https://pub.example/p.pdf", "Paper", FALSE)>>, "Q1"),
      block("2021", ListCite, NoAnchor, <<>>, None),
      block("2021", ListCite, ListDoi, <<>>, None),
      block("2022", ListSnippetCite, NoAnchor, <<>>, None),
      block("1978", ListCite, NoAnchor, <<>>, None),
      block(None, ListCite, NoAnchor, <<>>, None),
      block("Unknown", ListCite, NoAnchor, <<>>, None),
      block("2021", None, NoAnchor, <<>>, None) }

\* the blocks of a document, one to a line
RECURSIVE block_lines(_)
block_lines(bs) ==
    IF bs = <<>> THEN <<>>
    ELSE <<article(bs[1]), ws("\n")>> \o block_lines(Tail(bs))

\* the first documents: a page with a List section, the same page with no
\* whitespace around the section's pieces, and a page whose section has
\* another heading
Documents ==
    UNION { { <<markup("<h1>Publications</h1>"), ws("\n"), SectionOpen, ws("\n"),
                ListHeading, ws("\n")>>
              \o block_lines(bs)
              \o <<SectionClose, ws("\n"), markup("<footer>F. Rico</footer>")>>,
              <<SectionOpen, ListHeading>>
              \o [i \in 1..Len(bs) |-> article(bs[i])]
              \o <<SectionClose>>,
              <<markup("<h1>Publications</h1>"), ws("\n"), SectionOpen, ws("\n"),
                markup("<h2>Papers</h2>"), ws("\n")>>
              \o block_lines(bs)
              \o <<SectionClose>> } : bs \in SeqsUpTo(ListBlocks, MaxCards) }

\* a rank page that ranks the title of ListCite
ListRankPage == <<[label |-> "Class 2", title |-> "[A Study](http://x.org/s)"]>>

\* what the external sources answer
ListWorlds ==
    { [page |-> <<>>, reg |-> RegistryFails],
      [page |-> ListRankPage, reg |-> RegistryFails],
      [page |-> <<>>, reg |-> RegistryAnswers] }

Init ==
    /\ file \in Documents
    /\ \E w \in ListWorlds : rank_page = w.page /\ registry = w.reg
    /\ bib_authors = NoBibAuthors
    /\ rank_map = <<>>
    /\ doc = <<>>
    /\ cards = <<>>
    /\ list_out = <<>>
    /\ prev = NoRun
    /\ runs = 0
    /\ exit_status = None
    /\ printed = NothingPrinted
    /\ pc = "ready"
    /\ MatchIdle /\ DedupIdle /\ CardIdle

\* a run starts: doc = open(path).read()
ReadDocument ==
    /\ pc \in {"ready", "written"}
    /\ runs < MaxRuns
    /\ runs' = runs + 1
    /\ doc' = file
    /\ prev' = [cards |-> cards, list_out |-> list_out]
    /\ cards' = <<>>
    /\ list_out' = <<>>
    /\ exit_status' = None
    /\ printed' = NothingPrinted
    /\ pc' = "start"
    /\ UNCHANGED <<envVars, rank_page, file, matchVars, dedupVars, cardVars>>

\* rank_map = fetch_rank_map()
FetchRankMap ==
    /\ pc = "start"
    /\ rank_map' = fetch_rank_map(rank_page)
    /\ pc' = "parse"
    /\ UNCHANGED <<bib_authors, registry, rank_page, printed, file, doc, cards, list_out, prev, runs,
                   exit_status, matchVars, dedupVars, cardVars>>

\* fetch_rank_map raises (the request fails, or r.raise_for_status()): main
\* does not catch it, and the interpreter exits with status 1
FetchRankMapRaises ==
    /\ pc = "start"
    /\ pc' = "aborted"
    /\ exit_status' = "1"
    /\ UNCHANGED <<envVars, rank_page, printed, file, doc, cards, list_out, prev, runs,
                   matchVars, dedupVars, cardVars>>

\* parse_cards: one more block of the document, cards.append(Card(...))
ParseBlock ==
    /\ pc = "parse"
    /\ Len(cards) < Len(find_blocks(doc))
    /\ cards' = Append(cards, parse_block(find_blocks(doc)[Len(cards) + 1].block))
    /\ UNCHANGED <<envVars, rank_page, printed, file, doc, list_out, prev, runs, exit_status, pc,
                   matchVars, dedupVars, cardVars>>

\* new_list = _render_list(cards, rank_map)
RenderList ==
    /\ pc = "parse"
    /\ Len(cards) = Len(find_blocks(doc))
    /\ list_out' = _render_list(cards, rank_map, bib_authors, registry)
    /\ pc' = "rendered"
    /\ UNCHANGED <<envVars, rank_page, printed, file, doc, cards, prev, runs, exit_status,
                   matchVars, dedupVars, cardVars>>

\* the List section is not found: raise SystemExit("Could not find ..."),
\* which ends the run with status 1
SectionNotFound ==
    /\ pc = "rendered"
    /\ ~find_list_section(doc).found
    /\ pc' = "exited"
    /\ exit_status' = "1"
    /\ UNCHANGED <<envVars, rank_page, printed, file, doc, cards, list_out, prev, runs,
                   matchVars, dedupVars, cardVars>>

\* the List section is found: new_doc is written to the file, main prints
\* its counts and returns
WriteDocument ==
    /\ pc = "rendered"
    /\ find_list_section(doc).found
    /\ file' = splice(doc, find_list_section(doc).span, list_markup(list_out))
    /\ printed' = summary(cards, rank_map)
    /\ pc' = "written"
    /\ exit_status' = "0"
    /\ UNCHANGED <<envVars, rank_page, doc, cards, list_out, prev, runs,
                   matchVars, dedupVars, cardVars>>

Next ==
    \/ ReadDocument
    \/ FetchRankMap
    \/ FetchRankMapRaises
    \/ ParseBlock
    \/ RenderList
    \/ SectionNotFound
    \/ WriteDocument

Spec == Init /\ [][Next]_vars

(***************************************************************************)
(* Properties of the filter (under Spec)                                   *)
(***************************************************************************)

\* the input indices of the cards in the rendered list
RenderedSources ==
    UNION { {list_out[g].items[k].src : k \in 1..Len(list_out[g].items)} : g \in 1..Len(list_out) }

ExcludedByYear(c) == c.year \in EXCLUDE_YEARS
ExcludedByDoi(c)  == _norm_doi_for_match(c.doi) \in EXCLUDE_DOIS
ExcludedByText(c) ==
    LET text == _norm_text_for_filter(c.where \o " " \o c.cite \o " "
                                      \o (IF c.doi = None THEN "" ELSE c.doi))
    IN  \E k \in 1..Len(EXCLUDE_TEXT_SNIPPETS) : contains(text, EXCLUDE_TEXT_SNIPPETS[k])

\* C2: the rendered list holds no card whose year is in the year exclusion
\* set (a card of year "1978" in particular), whose normalized DOI is in the
\* DOI exclusion set, or whose normalized venue + citation + DOI text holds
\* a bad-data fingerprint.
C2_ExcludedNeverRendered ==
    pc = "rendered" =>
        \A i \in RenderedSources :
            /\ ~ExcludedByYear(cards[i])
            /\ cards[i].year # "1978"
            /\ ~ExcludedByDoi(cards[i])
            /\ ~ExcludedByText(cards[i])

\* a rendered list that holds one card of the document and leaves out
\* another, whose year is not excluded but whose DOI or text is
C2_Witness ==
    /\ pc = "rendered"
    /\ RenderedSources # {}
    /\ \E i \in 1..Len(cards) :
          /\ i \notin RenderedSources
          /\ ~ExcludedByYear(cards[i])
          /\ (ExcludedByDoi(cards[i]) \/ ExcludedByText(cards[i]))

(***************************************************************************)
(* Properties of the renderer (under Spec)                                 *)
(***************************************************************************)

C12_RepairIsFixedPoint ==
    (pc = "written" /\ runs >= 2) => file = doc

\* the card blocks alone: a second run writes the blocks the first run wrote
C12_BlocksAreFixedPoint ==
    (pc = "written" /\ runs >= 2) => find_blocks(file) = find_blocks(doc)

AnchorAt(d, i) ==
    /\ d[i] = ListHeading
    /\ \/ (i > 1 /\ d[i - 1] = SectionOpen)
       \/ (i > 2 /\ d[i - 1].kind = "ws" /\ d[i - 2] = SectionOpen)
    /\ \E k \in (i + 1)..Len(d) : d[k] = SectionClose

LacksAnchor(d) == \A i \in 1..Len(d) : ~AnchorAt(d, i)

\* C14: when the document the run read lacks the List section anchor, the
\* run never writes the file (it stays the document that was read) and never
\* ends with status 0: where it ends, it ends with a non-zero exit status.
C14_MissingAnchorAbortsUnwritten ==
    (runs >= 1 /\ LacksAnchor(doc)) =>
        /\ file = doc
        /\ pc # "written"
        /\ exit_status # "0"
        /\ (pc \in {"exited", "aborted"} <=> exit_status = "1")
        /\ (pc = "rendered" => ~find_list_section(doc).found)

\* a run on a document without the anchor that parsed cards, rendered a
\* list and then exited with status 1
C14_Witness ==
    /\ pc = "exited" /\ exit_status = "1"
    /\ LacksAnchor(doc)
    /\ cards # <<>> /\ list_out # <<>>
    /\ file = doc

\* C15: when the run succeeds, the document it wrote is the document it read
\* with the inner content of the List section (what stands between the
\* whitespace after the heading and the whitespace before </section>)
\* replaced by the text the renderer returned: all that stood before and
\* after it is in the written document unchanged.
C15_OnlyListContentReplaced ==
    pc = "written" =>
        /\ exit_status = "0"
        /\ \E i \in 1..Len(doc) : \E k \in (i + 1)..Len(doc) :
              /\ AnchorAt(doc, i)
              /\ doc[k] = SectionClose
              /\ \A h \in (i + 1)..(k - 1) : doc[h] # SectionClose
              /\ \E a \in {i, i + 1} : \E b \in {k - 1, k} :
                    /\ a < b
                    /\ (a = i + 1) <=> doc[i + 1].kind = "ws"
                    /\ (b = k - 1) <=> (k - 1 > a /\ doc[k - 1].kind = "ws")
                    /\ file = cat(cat(SubSeq(doc, 1, a), list_markup(list_out)),
                                  SubSeq(doc, b, Len(doc)))

\* a successful run on a document with text before the section, cards in
\* it and text after it, whose written list differs from what stood there
C15_Witness ==
    /\ pc = "written" /\ exit_status = "0"
    /\ doc[1].kind = "markup" /\ doc[Len(doc)].kind = "markup"
    /\ find_blocks(doc) # <<>>
    /\ list_out # <<>>
    /\ file # doc
    /\ file[1] = doc[1] /\ file[Len(file)] = doc[Len(doc)]

\* C16: a failure of an external lookup is treated as "no data" and never
\* ends the run: a run on a document that has the List section is never
\* aborted, whatever the rank source, the registry and the bibliography
\* files do.
C16_LookupFailureNeverAborts ==
    ~(pc = "aborted" /\ ~LacksAnchor(doc))

\* C17: a block from which no citation text can be extracted yields no
\* card: every card parse_cards produced has a citation text, and so has
\* every card of the rendered list.
C17_BlockWithoutCiteSkipped ==
    /\ \A i \in 1..Len(cards) : cards[i].cite # ""
    /\ pc = "rendered" =>
          \A g \in 1..Len(list_out) : \A k \in 1..Len(list_out[g].items) :
              list_out[g].items[k].html.cite # ""

\* how many cards the list holds, and how many card blocks its text holds
RenderedCount == Len(find_blocks(list_markup(list_out)))

\* how many groups hold card i of the input, counted with repetition
TimesRendered(i) ==
    Cardinality({gk \in UNION { {<<g, k>> : k \in 1..Len(list_out[g].items)} : g \in 1..Len(list_out) } :
                    list_out[gk[1]].items[gk[2]].src = i})

\* C23: every card parse_cards returned that _should_exclude does not
\* exclude is rendered exactly once by _render_list (and an excluded card
\* never), so the renderer's year checks drop no card that passed the
\* filter, and the number of rendered cards is the "Kept" count main prints:
\* parsed minus removed.
C23_KeptCardsAllRendered ==
    /\ pc \in {"rendered", "written", "exited"} =>
          /\ \A i \in 1..Len(cards) :
                TimesRendered(i) = IF _should_exclude(cards[i]) THEN 0 ELSE 1
          /\ \A i \in 1..Len(cards) :
                ~_should_exclude(cards[i]) => (cards[i].year # "" /\ isdigit(cards[i].year))
    /\ pc = "written" =>
          /\ printed.parsed = Len(cards)
          /\ printed.kept = printed.parsed - printed.removed
          /\ RenderedCount = printed.kept

\* a finished run that parsed two cards, removed one and rendered the other
C23_Witness ==
    /\ pc = "written"
    /\ printed.parsed = 2 /\ printed.removed = 1 /\ printed.kept = 1
    /\ RenderedCount = 1

=============================================================================
